---------------------------- MODULE Spec2Model ----------------------------
(***************************************************************************)
(* Model of the generator's enriched DMMF graph:                           *)
(*   ExtendedDMMFModel        (classes/extendedDMMFModel.ts)               *)
(*   ExtendedDMMFSchemaField  (classes/extendedDMMFSchemaField.ts)         *)
(*                                                                         *)
(* Strings are sequences of tokens.  A token is a TLA+ string standing for *)
(* a run of characters that the code never splits: the directive prefix    *)
(* "@zod.", a word, a quote, the separator ", ", a verb part ("find",      *)
(* "Many"), a model-name part ("User", "Profile"), "OrThrow", "Schema".    *)
(* includes/replace/split/match work on token sequences exactly as the     *)
(* JavaScript string methods work on characters.  Import statements of a   *)
(* model are flattened to one TLA+ string (Flat), so that two statements   *)
(* are equal exactly when their characters are.                            *)
(*                                                                         *)
(* An optional value is a sequence of length 0 (absent) or 1 (present).    *)
(***************************************************************************)
EXTENDS Naturals, Sequences, FiniteSets

VARIABLES
  dmmf,          \* optional raw models handed to the run: <<>> or <<sequence>>
  datamodel,     \* optional root graph: <<>> or <<sequence of ExtendedDMMFModel>>
  error,         \* optional message of the Error thrown out of a constructor
  schemaField    \* optional ExtendedDMMFSchemaField built against datamodel

vars == <<dmmf, datamodel, error, schemaField>>

(***************************************************************************)
(* Bounds                                                                  *)
(***************************************************************************)
MaxFields == 3      \* fields of a raw model
MaxSegments == 3    \* text segments a documentation string is built from
MaxModels == 2      \* models of the root graph an action is bound against
MaxArgs == 2        \* args of a raw schema field

None == <<>>
Some(x) == <<x>>

(***************************************************************************)
(* String primitives (String.prototype.includes / replace / split, Set)    *)
(***************************************************************************)
Range(s) == {s[i] : i \in 1..Len(s)}

RECURSIVE Flat(_)
Flat(s) == IF s = <<>> THEN "" ELSE Head(s) \o Flat(Tail(s))

RECURSIVE Concat(_)
Concat(ss) == IF ss = <<>> THEN <<>> ELSE Head(ss) \o Concat(Tail(ss))

\* least element of a non-empty set of numbers, 0 for the empty set
Min(S) == IF S = {} THEN 0 ELSE CHOOSE i \in S : \A j \in S : i <= j

\* position of the first occurrence of sub in s, 0 when there is none
IndexOf(s, sub) ==
  Min({i \in 1..(Len(s) + 1) :
         /\ i + Len(sub) - 1 <= Len(s)
         /\ SubSeq(s, i, i + Len(sub) - 1) = sub})

includes(s, sub) == IndexOf(s, sub) # 0

\* s with the Len(sub) tokens at position i (if any: i # 0) replaced by rep
ReplaceAt(s, i, sub, rep) ==
  IF i = 0 THEN s
  ELSE SubSeq(s, 1, i - 1) \o rep \o SubSeq(s, i + Len(sub), Len(s))

\* s.replace(sub, rep) with a string pattern: the first occurrence only
replace(s, sub, rep) == ReplaceAt(s, IndexOf(s, sub), sub, rep)

\* s.split(tok): never empty; pieces between the occurrences of tok
RECURSIVE split(_, _)
RECURSIVE SplitAt(_, _, _)
SplitAt(s, tok, i) ==
  IF i = 0 THEN <<s>>
  ELSE <<SubSeq(s, 1, i - 1)>> \o split(SubSeq(s, i + 1, Len(s)), tok)

split(s, tok) == SplitAt(s, tok, IndexOf(s, <<tok>>))

\* new Set(list) read back in insertion order: later duplicates dropped
RECURSIVE NewSet(_)
AddToSet(set, x) == IF x \in Range(set) THEN set ELSE Append(set, x)

NewSet(list) ==
  IF list = <<>> THEN <<>>
  ELSE AddToSet(NewSet(SubSeq(list, 1, Len(list) - 1)), list[Len(list)])

(***************************************************************************)
(* Tokens of a documentation string and their character classes            *)
(***************************************************************************)
AT == "@zod."      \* prefix of a directive marker
LB == "(["
RB == "])"
DQ == "\""
SQ == "'"
SEP == ", "

\* tokens made of \w characters only
WordTokens == {"import", "custom", "imp", "ort", "y"}

\* tokens made of characters of [\w "'\{\}\/,;.*] only
PayloadTokens ==
  WordTokens \cup {DQ, SQ, SEP, "some text ", "import { x } from ",
                   "import { RoleSchema } from ", "../enums/RoleSchema"}

\* last index of the maximal run of Class tokens that starts at from
\* (from - 1 when doc[from] is not of the class)
RECURSIVE RunEnd(_, _, _)
RunEnd(doc, from, Class) ==
  IF from <= Len(doc) /\ doc[from] \in Class
  THEN RunEnd(doc, from + 1, Class)
  ELSE from - 1

\* /@zod\.(?<type>[\w]+)(\(\[)(?<imports>[\w "'\{\}\/,;.*]+)(\]\))/ tried at
\* position i: the groups of the match, for the type ending at k and the
\* imports ending at m, or null
GroupsTo(doc, i, k, m) ==
  IF /\ m >= k + 2
     /\ m + 1 <= Len(doc) /\ doc[m + 1] = RB
  THEN Some([whole   |-> SubSeq(doc, i, m + 1),
             type    |-> SubSeq(doc, i + 1, k),
             imports |-> SubSeq(doc, k + 2, m)])
  ELSE None

TypeTo(doc, i, k) ==
  IF /\ k >= i + 1
     /\ k + 1 <= Len(doc) /\ doc[k + 1] = LB
  THEN GroupsTo(doc, i, k, RunEnd(doc, k + 2, PayloadTokens))
  ELSE None

MatchAt(doc, i) ==
  IF i >= 1 /\ i <= Len(doc) /\ doc[i] = AT
  THEN TypeTo(doc, i, RunEnd(doc, i + 1, WordTokens))
  ELSE None

MarkerStarts(doc) == {i \in 1..Len(doc) : MatchAt(doc, i) # None}

\* documentation.match(IMPORT_STATEMENT_REGEX): the leftmost match, with its
\* groups, or null
IMPORT_STATEMENT_REGEX(doc) == MatchAt(doc, Min(MarkerStarts(doc)))

\* statement.match(/"(?<statement>[\w "'\{\}\/,;.*]+)"/)?.groups.statement
\* on an element of the imports group: from the first double quote (first)
\* to the last one (last), at least one character between them
Max(S) == IF S = {} THEN 0 ELSE CHOOSE i \in S : \A j \in S : i >= j

Between(element, first, last) ==
  IF first = 0 \/ last < first + 2 THEN None
  ELSE Some(SubSeq(element, first + 1, last - 1))

StatementMatch(element) ==
  Between(element,
          Min({i \in 1..Len(element) : element[i] = DQ}),
          Max({i \in 1..Len(element) : element[i] = DQ}))

\* .replace(/["']/g, "'")
NormalizeQuotes(s) == [i \in 1..Len(s) |-> IF s[i] \in {DQ, SQ} THEN SQ ELSE s[i]]

(***************************************************************************)
(* ExtendedDMMFModel                                                       *)
(***************************************************************************)
\* ExtendedDMMFField: the raw field with its special-type flags
ExtendedDMMFField(field) ==
  [name |-> field.name, kind |-> field.kind, type |-> field.type,
   isRequired |-> field.isRequired, omit |-> field.omit,
   isJsonType |-> field.type = "Json",
   isDecimalType |-> field.type = "Decimal"]

isOmitField(field) == field.omit

\* variant: the location names no model
_setErrorLocationNameless(name) == <<"[Error Location]: Model: '">> \o <<"'.">>

_setErrorLocation(name) == <<"[Error Location]: Model: '">> \o name \o <<"'.">>

_getExtendedFields(model) ==
  [i \in 1..Len(model.fields) |-> ExtendedDMMFField(model.fields[i])]

IsScalar(field) == field.kind = "scalar"
IsObject(field) == field.kind = "object"
IsEnum(field) == field.kind = "enum"

_setScalarFields(fields) == SelectSeq(fields, IsScalar)

_setRelationFields(fields) == SelectSeq(fields, IsObject)

\* variant: the enum list filters on the scalar kind
_setEnumfieldsScalar(fields) == SelectSeq(fields, IsScalar)

_setEnumfields(fields) == SelectSeq(fields, IsEnum)

_setHasRelationFields(relationFields) == Len(relationFields) > 0

_setHasOmitFields(fields) == \E i \in 1..Len(fields) : isOmitField(fields[i])

\* the statements of the imports group: split(', '), inner match, quotes
\* normalised, unmatched elements dropped
\* the statement of one element, as a list of none or one
Statement(matched) ==
  IF matched = None THEN <<>> ELSE <<Flat(NormalizeQuotes(matched[1]))>>

RECURSIVE Statements(_)
Statements(importsList) ==
  IF importsList = <<>> THEN <<>>
  ELSE Statement(StatementMatch(Head(importsList)))
       \o Statements(Tail(importsList))

\* result: kind "none" (returns undefined), "throw" (message) or
\* "directive" (statements, clearedDocumentation)
NoDirective ==
  [kind |-> "none", message |-> <<>>, statements |-> <<>>,
   clearedDocumentation |-> <<>>]

\* variant: the matched marker is left in the documentation
ExtractFromKeeping(doc, importStatements, errorLocation) ==
  IF importStatements = None THEN NoDirective
  ELSE IF Flat(importStatements[1].type) # "import"
  THEN [NoDirective EXCEPT !.kind = "throw",
          !.message = <<"[@zod generator error]: '">> \o importStatements[1].type
             \o <<"' is not a valid validator key. ">> \o errorLocation]
  ELSE [NoDirective EXCEPT !.kind = "directive",
          !.statements = Statements(split(importStatements[1].imports, SEP)),
          !.clearedDocumentation = doc]

\* the part of _extractZodDirectives after the match
ExtractFrom(doc, importStatements, errorLocation) ==
  IF importStatements = None THEN NoDirective
  ELSE IF Flat(importStatements[1].type) # "import"
  THEN [NoDirective EXCEPT !.kind = "throw",
          !.message = <<"[@zod generator error]: '">> \o importStatements[1].type
             \o <<"' is not a valid validator key. ">> \o errorLocation]
  ELSE [NoDirective EXCEPT !.kind = "directive",
          !.statements = Statements(split(importStatements[1].imports, SEP)),
          !.clearedDocumentation = replace(doc, importStatements[1].whole, <<>>)]

_extractZodDirectives(documentation, errorLocation) ==
  IF documentation = None \/ documentation = Some(<<>>) THEN NoDirective
  ELSE ExtractFrom(documentation[1], IMPORT_STATEMENT_REGEX(documentation[1]),
                   errorLocation)

EnumImport(type) ==
  "import { " \o type \o "Schema } from '../enums/" \o type \o "Schema'"

RECURSIVE EnumImports(_)
EnumImports(enumFields) ==
  IF enumFields = <<>> THEN <<>>
  ELSE <<EnumImport(Head(enumFields).type)>> \o EnumImports(Tail(enumFields))

NullableJsonImport == "import { NullableJsonValue } from \"../helpers"
InputJsonImport == "import { InputJsonValue } from \"../helpers"
PrismaClientImport(generatorConfig) ==
  "import * as PrismaClient from '" \o generatorConfig.prismaClientPath \o "'"

_getAutomaticImports(generatorConfig, fields, enumFields) ==
  (IF \E i \in 1..Len(fields) : fields[i].isJsonType /\ ~fields[i].isRequired
   THEN <<NullableJsonImport>> ELSE <<>>)
  \o (IF \E i \in 1..Len(fields) : fields[i].isJsonType /\ fields[i].isRequired
      THEN <<InputJsonImport>> ELSE <<>>)
  \o (IF \E i \in 1..Len(fields) : fields[i].isDecimalType
      THEN <<PrismaClientImport(generatorConfig)>> ELSE <<>>)
  \o EnumImports(enumFields)

\* variant: the automatic statements are put before the directive's
DocumentationContentAppending(zodDirectives, automaticImports) ==
  IF zodDirectives.kind = "throw"
  THEN [threw |-> TRUE, message |-> zodDirectives.message]
  ELSE IF zodDirectives.kind = "none"
  THEN [threw |-> FALSE, imports |-> NewSet(automaticImports),
        documentation |-> None]
  ELSE [threw |-> FALSE,
        imports |-> NewSet(automaticImports \o zodDirectives.statements),
        documentation |-> Some(zodDirectives.clearedDocumentation)]

\* the part of _getDocumentationContent after its two calls
DocumentationContent(zodDirectives, automaticImports) ==
  IF zodDirectives.kind = "throw"
  THEN [threw |-> TRUE, message |-> zodDirectives.message]
  ELSE IF zodDirectives.kind = "none"
  THEN [threw |-> FALSE, imports |-> NewSet(automaticImports),
        documentation |-> None]
  ELSE [threw |-> FALSE,
        imports |-> NewSet(zodDirectives.statements \o automaticImports),
        documentation |-> Some(zodDirectives.clearedDocumentation)]

\* result: threw (message) or the imports and the optional documentation
_getDocumentationContent(generatorConfig, documentation, errorLocation, fields, enumFields) ==
  DocumentationContent(_extractZodDirectives(documentation, errorLocation),
                       _getAutomaticImports(generatorConfig, fields, enumFields))

\* the constructor's assignments, given the values its calls returned
ModelObject(model, fields, scalarFields, relationFields, enumFields, errorLocation, docsContent) ==
  IF docsContent.threw
  THEN [threw |-> TRUE, message |-> docsContent.message]
  ELSE [threw |-> FALSE,
        value |-> [name |-> model.name,
                   fields |-> fields,
                   documentation |-> model.documentation,
                   scalarFields |-> scalarFields,
                   relationFields |-> relationFields,
                   enumFields |-> enumFields,
                   hasRelationFields |-> _setHasRelationFields(relationFields),
                   hasOmitFields |-> _setHasOmitFields(fields),
                   errorLocation |-> errorLocation,
                   imports |-> docsContent.imports,
                   clearedDocumentation |-> docsContent.documentation]]

ModelOfFields(generatorConfig, model, fields, enumFields, errorLocation) ==
  ModelObject(model, fields, _setScalarFields(fields),
              _setRelationFields(fields), enumFields, errorLocation,
              _getDocumentationContent(generatorConfig, model.documentation,
                                       errorLocation, fields, enumFields))

\* new ExtendedDMMFModel(generatorConfig, model): threw (message) or value
ExtendedDMMFModel(generatorConfig, model) ==
  ModelOfFields(generatorConfig, model, _getExtendedFields(model),
                _setEnumfields(_getExtendedFields(model)),
                _setErrorLocation(model.name))

(***************************************************************************)
(* constants/objectMaps                                                    *)
(***************************************************************************)
OrThrow == <<"OrThrow">>
Undefined == <<"undefined">>    \* what String(undefined) spells

PRISMA_ACTION_ARRAY ==
  << <<"find", "Unique">>, <<"find", "Many">>, <<"find", "First">>,
     <<"create", "One">>, <<"create", "Many">>,
     <<"update", "One">>, <<"update", "Many">>,
     <<"upsert", "One">>,
     <<"delete", "One">>, <<"delete", "Many">>,
     <<"execute", "Raw">>, <<"aggregate">>, <<"count">>, <<"group", "By">> >>

\* the PascalCase label of a verb's arg type, absent for verbs without one
PRISMA_ACTION_ARG_MAP(prismaAction) ==
  CASE prismaAction = Some(<<"find", "Unique">>) -> Some(<<"Find", "Unique">>)
    [] prismaAction = Some(<<"find", "Many">>) -> Some(<<"Find", "Many">>)
    [] prismaAction = Some(<<"find", "First">>) -> Some(<<"Find", "First">>)
    [] prismaAction = Some(<<"create", "One">>) -> Some(<<"Create">>)
    [] prismaAction = Some(<<"create", "Many">>) -> Some(<<"Create", "Many">>)
    [] prismaAction = Some(<<"update", "One">>) -> Some(<<"Update">>)
    [] prismaAction = Some(<<"update", "Many">>) -> Some(<<"Update", "Many">>)
    [] prismaAction = Some(<<"upsert", "One">>) -> Some(<<"Upsert">>)
    [] prismaAction = Some(<<"delete", "One">>) -> Some(<<"Delete">>)
    [] prismaAction = Some(<<"delete", "Many">>) -> Some(<<"Delete", "Many">>)
    [] prismaAction = Some(<<"aggregate">>) -> Some(<<"Aggregate">>)
    [] prismaAction = Some(<<"group", "By">>) -> Some(<<"Group", "By">>)
    [] OTHER -> None

(***************************************************************************)
(* ExtendedDMMFSchemaArg                                                   *)
(***************************************************************************)
RewriteNames == {"data", "create", "update", "upsert", "delete"}

ExtendedDMMFSchemaArg(arg, linkedField) ==
  [name |-> arg.name, isRequired |-> arg.isRequired,
   inputTypes |-> arg.inputTypes,
   hasMultipleTypes |-> Len(arg.inputTypes) > 1,
   linkedField |-> linkedField]

rewriteArgWithNewType(arg) == arg.name \in RewriteNames

(***************************************************************************)
(* ExtendedDMMFSchemaField                                                 *)
(***************************************************************************)
\* Array.prototype.find
RECURSIVE FindVerb(_, _)
FindVerb(array, name) ==
  IF array = <<>> THEN None
  ELSE IF includes(name, Head(array)) THEN Some(Head(array))
  ELSE FindVerb(Tail(array), name)

_setMatchedPrismaAction(name) == FindVerb(PRISMA_ACTION_ARRAY, name)

\* String(x) of an optional string
AsString(opt) == IF opt = None THEN Undefined ELSE opt[1]

\* variant: an absent verb removes nothing from the name
_setModelTypeSkipping(name, prismaAction) ==
  replace(IF prismaAction = None THEN name
          ELSE replace(name, prismaAction[1], <<>>), OrThrow, <<>>)

_setModelType(name, prismaAction) ==
  replace(replace(name, AsString(prismaAction), <<>>), OrThrow, <<>>)

_setArgName(name, modelType, prismaAction) ==
  LET argName == PRISMA_ACTION_ARG_MAP(prismaAction)
  IN IF includes(name, OrThrow)
     THEN Some(modelType \o AsString(argName) \o <<"OrThrow", "Args">>)
     ELSE IF argName = None THEN None
     ELSE Some(modelType \o argName[1] \o <<"Args">>)

RECURSIVE FindModel(_, _)
FindModel(models, modelType) ==
  IF models = <<>> THEN None
  ELSE IF includes(modelType, Head(models).name) THEN Some(Head(models))
  ELSE FindModel(Tail(models), modelType)

_setLinkedModel(datamodelModels, modelType) == FindModel(datamodelModels, modelType)

RECURSIVE FindField(_, _)
FindField(fields, argName) ==
  IF fields = <<>> THEN None
  ELSE IF Head(fields).name = argName THEN Some(Head(fields))
  ELSE FindField(Tail(fields), argName)

_setArgs(field, linkedModel) ==
  [i \in 1..Len(field.args) |->
     ExtendedDMMFSchemaArg(field.args[i],
        IF linkedModel = None THEN None
        ELSE FindField(linkedModel[1].fields, field.args[i].name))]

\* /create|upsert|update|delete/.test(name)
IsWriteName(name) ==
  \E v \in {"create", "upsert", "update", "delete"} : includes(name, <<v>>)

_setHasOmitFieldsOfAction(name, linkedModel) ==
  IF IsWriteName(name)
  THEN (linkedModel # None /\ linkedModel[1].hasOmitFields)
  ELSE FALSE

\* !/createMany|updateMany|deleteMany/.test(name)
includeInSelectAndIncludeArgs(name) ==
  ~ \E v \in {"create", "update", "delete"} : includes(name, <<v, "Many">>)

SchemaImport(generatorConfig, type) ==
  <<"import { ">> \o type \o <<"Schema", " } from '../",
    generatorConfig.inputTypePath, "/">> \o type \o <<"Schema", "'">>

IncludeImport(generatorConfig, modelType) ==
  SchemaImport(generatorConfig, modelType \o <<"Include">>)

\* the statement pushed for one arg: every input type of a multi-type arg,
\* the first input type otherwise
ArgImports(generatorConfig, arg) ==
  IF arg.hasMultipleTypes
  THEN [i \in 1..Len(arg.inputTypes) |->
          SchemaImport(generatorConfig, arg.inputTypes[i].type)]
  ELSE <<SchemaImport(generatorConfig, arg.inputTypes[1].type)>>

NotBuiltinImport(imp) ==
  ~includes(imp, <<"Int", "Schema">>) /\ ~includes(imp, <<"Boolean", "Schema">>)

_setArgTypeImports(generatorConfig, name, modelType, linkedModel, args) ==
  LET include ==
        IF /\ includeInSelectAndIncludeArgs(name)
           /\ linkedModel # None
           /\ linkedModel[1].hasRelationFields
        THEN <<IncludeImport(generatorConfig, modelType)>>
        ELSE <<>>
      imports ==
        include \o Concat([i \in 1..Len(args) |-> ArgImports(generatorConfig, args[i])])
  IN NewSet(SelectSeq(imports, NotBuiltinImport))

\* the text of one arg of the custom args type
ArgEntry(arg) ==
  LET argName == <<arg.name>> \o (IF arg.isRequired THEN <<>> ELSE <<"?">>) \o <<": ">>
      n == Len(arg.inputTypes)
      argType ==
        IF arg.hasMultipleTypes
        THEN Concat([idx \in 1..n |->
               <<"z.infer<typeof ">> \o arg.inputTypes[idx].type \o <<"Schema", ">">>
               \o (IF idx # n THEN <<" | ">> ELSE <<>>)])
        ELSE <<"z.infer<typeof ">> \o arg.inputTypes[1].type \o <<"Schema", ">", " ">>
             \o (IF arg.inputTypes[1].isList THEN <<"[]">> ELSE <<>>)
  IN argName \o argType

\* Array.prototype.join(', ')
RECURSIVE Join(_)
Join(parts) ==
  IF parts = <<>> THEN <<>>
  ELSE IF Len(parts) = 1 THEN parts[1]
  ELSE parts[1] \o <<SEP>> \o Join(Tail(parts))

getTypeForCustomArgsType(args) ==
  LET rewritten == SelectSeq(args, rewriteArgWithNewType)
  IN Join([i \in 1..Len(rewritten) |-> ArgEntry(rewritten[i])])

\* new ExtendedDMMFSchemaField(generatorConfig, field, datamodel)
ExtendedDMMFSchemaField(generatorConfig, field, datamodelModels) ==
  LET prismaAction == _setMatchedPrismaAction(field.name)
      modelType == _setModelType(field.name, prismaAction)
      argName == _setArgName(field.name, modelType, prismaAction)
      linkedModel == _setLinkedModel(datamodelModels, modelType)
      args == _setArgs(field, linkedModel)
  IN [name |-> field.name,
      prismaAction |-> prismaAction,
      modelType |-> modelType,
      argName |-> argName,
      linkedModel |-> linkedModel,
      args |-> args,
      hasOmitFields |-> _setHasOmitFieldsOfAction(field.name, linkedModel),
      argTypeImports |-> _setArgTypeImports(generatorConfig, field.name,
                                            modelType, linkedModel, args)]

(***************************************************************************)
(* Inputs: the raw DMMF the generator is run on                            *)
(***************************************************************************)
GeneratorConfig ==
  [prismaClientPath |-> "@prisma/client", inputTypePath |-> "inputTypeSchemas"]

User == <<"User">>
UserProfile == <<"User", "Profile">>
ModelNames == {User, UserProfile}

RawField(name, kind, type, isRequired, omit) ==
  [name |-> name, kind |-> kind, type |-> type, isRequired |-> isRequired,
   omit |-> omit]

FieldPool ==
  { RawField("id", "scalar", "Int", TRUE, FALSE),
    RawField("meta", "scalar", "Json", FALSE, FALSE),
    RawField("data", "scalar", "Json", TRUE, FALSE),
    RawField("price", "scalar", "Decimal", TRUE, FALSE),
    RawField("role", "enum", "Role", TRUE, FALSE),
    RawField("backup", "enum", "Role", FALSE, FALSE),
    RawField("posts", "object", "Post", TRUE, FALSE),
    RawField("secret", "scalar", "String", TRUE, TRUE) }

\* sequences of at most n fields with distinct names
FieldSeqs(n) ==
  {fs \in UNION {[1..k -> FieldPool] : k \in 0..n} :
     \A i, j \in 1..Len(fs) : fs[i].name = fs[j].name => i = j}

\* @zod.<type>([<elements joined by ", ">])
Directive(type, elements) == <<AT>> \o type \o <<LB>> \o Join(elements) \o <<RB>>

QuotedX == <<DQ, "import { x } from ", SQ, "y", SQ, DQ>>
QuotedRole == <<DQ, "import { RoleSchema } from ", SQ, "../enums/RoleSchema", SQ, DQ>>
Unquoted == <<"y">>

\* documentation of the models whose fields vary
BasicDocs ==
  { None,
    Some(<<"some text ">>),
    Some(<<"some text ">> \o Directive(<<"import">>, <<QuotedX>>)),
    Some(Directive(<<"import">>, <<QuotedRole, QuotedX, QuotedRole>>)),
    Some(Directive(<<"import">>, <<Unquoted>>)) }

\* text segments a documentation string is put together from
Segments ==
  { <<"some text ">>,
    <<"!">>,
    Directive(<<"import">>, <<QuotedX>>),
    Directive(<<"import">>, <<QuotedRole, Unquoted>>),
    Directive(<<"import">>, <<Unquoted>>),
    Directive(<<"custom">>, <<QuotedX>>),
    <<AT, "import", LB, RB>>,
    <<AT, "imp">>,
    <<"ort", LB, DQ, "y", DQ, RB>> }

SegmentDocs ==
  {None} \cup
  {Some(Concat(ss)) : ss \in UNION {[1..k -> Segments] : k \in 0..MaxSegments}}

RawModel(name, fields, documentation) ==
  [name |-> name, fields |-> fields, documentation |-> documentation]

\* models with many field lists and few documentation strings
FieldRawModels ==
  {RawModel(n, fs, d) : n \in ModelNames, fs \in FieldSeqs(MaxFields), d \in BasicDocs}

\* models with few field lists and many documentation strings
DocRawModels ==
  {RawModel(n, fs, d) : n \in ModelNames,
     fs \in {<<>>, <<RawField("role", "enum", "Role", TRUE, FALSE)>>},
     d \in SegmentDocs}

\* models of the root graph that actions are bound against
GraphRawModels ==
  {RawModel(n, fs, None) : n \in ModelNames,
     fs \in { <<>>,
              <<RawField("posts", "object", "Post", TRUE, FALSE)>>,
              <<RawField("secret", "scalar", "String", TRUE, TRUE)>>,
              <<RawField("data", "scalar", "Json", TRUE, FALSE),
                RawField("posts", "object", "Post", TRUE, FALSE)>> }}
  \cup {RawModel(User, <<>>, Some(Directive(<<"custom">>, <<QuotedX>>)))}

\* root graphs: at most MaxModels models with distinct names
RawGraphs ==
  {ms \in UNION {[1..k -> GraphRawModels] : k \in 0..MaxModels} :
     \A i, j \in 1..Len(ms) : ms[i].name = ms[j].name => i = j}

InputType(type, isList) == [type |-> type, isList |-> isList]

RawArg(name, isRequired, inputTypes) ==
  [name |-> name, isRequired |-> isRequired, inputTypes |-> inputTypes]

ArgPool ==
  { RawArg("where", FALSE, <<InputType(<<"User", "Where", "Input">>, FALSE)>>),
    RawArg("take", FALSE, <<InputType(<<"Int">>, FALSE)>>),
    RawArg("cursor", FALSE, <<InputType(<<"Big", "Int">>, FALSE)>>),
    RawArg("skipDuplicates", FALSE, <<InputType(<<"Boolean">>, FALSE)>>),
    RawArg("data", TRUE, <<InputType(<<"User", "Create", "Input">>, FALSE),
                           InputType(<<"User", "Create", "Input">>, TRUE)>>),
    RawArg("update", TRUE, <<InputType(<<"User", "Update", "Input">>, TRUE)>>) }

ArgSeqs ==
  {as \in UNION {[1..k -> ArgPool] : k \in 0..MaxArgs} :
     \A i, j \in 1..Len(as) : as[i].name = as[j].name => i = j}

\* the verb part of an action name: recognised verbs and unrecognised words
NameVerbs ==
  { <<"find", "Many">>, <<"find", "Unique">>, <<"create", "One">>,
    <<"create", "Many">>, <<"upsert", "One">>, <<"count">>,
    <<"list">>, <<"undefined">> }

ActionNames ==
  {v \o m \o t : v \in NameVerbs, m \in ModelNames, t \in {<<>>, OrThrow}}

RawSchemaFields == {[name |-> n, args |-> as] : n \in ActionNames, as \in ArgSeqs}

(***************************************************************************)
(* The run: all models first, then the actions                             *)
(***************************************************************************)
Init ==
  /\ dmmf = None
  /\ datamodel = None
  /\ error = None
  /\ schemaField = None

\* new ExtendedDMMFDatamodel: every model is constructed in order; an Error
\* thrown by one of the constructors ends the run without a graph
Models(built) == [i \in 1..Len(built) |-> built[i].value]

FirstThrown(built) == Min({i \in 1..Len(built) : built[i].threw})

ExtendedDMMFDatamodel(rawModels, built, thrown) ==
  /\ dmmf = None
  /\ dmmf' = Some(rawModels)
  /\ datamodel' = IF thrown = 0 THEN Some(Models(built)) ELSE None
  /\ error' = IF thrown = 0 THEN None ELSE Some(built[thrown].message)
  /\ UNCHANGED schemaField

DatamodelOf(rawModels, built) ==
  ExtendedDMMFDatamodel(rawModels, built, FirstThrown(built))

ConstructDatamodel(rawModels) ==
  DatamodelOf(rawModels, [i \in 1..Len(rawModels) |->
                            ExtendedDMMFModel(GeneratorConfig, rawModels[i])])

\* new ExtendedDMMFSchemaField(generatorConfig, field, datamodel)
ConstructSchemaField(field) ==
  /\ datamodel # None
  /\ schemaField = None
  /\ schemaField' = Some(ExtendedDMMFSchemaField(GeneratorConfig, field, datamodel[1]))
  /\ UNCHANGED <<dmmf, datamodel, error>>

\* the root graph is constructed once, from any of the raw graphs
ConstructModels ==
  /\ dmmf = None
  /\ \E rawModels \in RawGraphs : ConstructDatamodel(rawModels)

\* an action is constructed against the finished root graph
ConstructAction ==
  /\ datamodel # None
  /\ schemaField = None
  /\ \E field \in RawSchemaFields : ConstructSchemaField(field)

Next == ConstructModels \/ ConstructAction

Spec == Init /\ [][Next]_vars

\* one model per run, from the field-rich and the documentation-rich inputs
ConstructFieldModel ==
  /\ dmmf = None
  /\ \E raw \in FieldRawModels : ConstructDatamodel(<<raw>>)

ConstructDocModel ==
  /\ dmmf = None
  /\ \E raw \in DocRawModels : ConstructDatamodel(<<raw>>)

NextModel == ConstructFieldModel \/ ConstructDocModel

SpecModel == Init /\ [][NextModel]_vars

(***************************************************************************)
(* Properties                                                              *)
(***************************************************************************)
\* the constructed models, paired with the raw models they were built from
Built == IF datamodel = None THEN {} ELSE 1..Len(datamodel[1])

Count(s, x) == Cardinality({i \in 1..Len(s) : s[i] = x})

NoDuplicates(s) == \A i, j \in 1..Len(s) : s[i] = s[j] => i = j

\* position of the first occurrence of x in s (0: none)
Pos(s, x) == Min({i \in 1..Len(s) : s[i] = x})

\* list holds elements of fields only, in the order they have in fields
InOrderOf(list, fields) ==
  /\ \A i \in 1..Len(list) : Pos(fields, list[i]) # 0
  /\ \A i, j \in 1..Len(list) :
       i < j => Pos(fields, list[i]) < Pos(fields, list[j])

\* C1: scalarFields, relationFields and enumFields partition fields: every
\* field of the model is in exactly one of the three lists, the lists hold
\* fields of the model only, and each keeps the declaration order (fields
\* itself holds the raw fields in declaration order).
C1_Partition ==
  \A n \in Built :
    LET m == datamodel[1][n]
        raw == dmmf[1][n]
    IN /\ Len(m.fields) = Len(raw.fields)
       /\ \A i \in 1..Len(raw.fields) :
            /\ m.fields[i].name = raw.fields[i].name
            /\ Count(m.scalarFields, m.fields[i])
                 + Count(m.relationFields, m.fields[i])
                 + Count(m.enumFields, m.fields[i]) = 1
       /\ InOrderOf(m.scalarFields, m.fields)
       /\ InOrderOf(m.relationFields, m.fields)
       /\ InOrderOf(m.enumFields, m.fields)

\* a model with a field of each kind has been constructed
C1_Witness ==
  \E n \in Built :
    /\ Len(datamodel[1][n].scalarFields) > 0
    /\ Len(datamodel[1][n].relationFields) > 0
    /\ Len(datamodel[1][n].enumFields) > 0

\* the automatic statements the raw fields ask for, in the stated order
RECURSIVE EnumStatements(_)
EnumStatements(rawFields) ==
  IF rawFields = <<>> THEN <<>>
  ELSE (IF Head(rawFields).kind = "enum"
        THEN <<"import { " \o Head(rawFields).type \o "Schema } from '../enums/"
                 \o Head(rawFields).type \o "Schema'">>
        ELSE <<>>)
       \o EnumStatements(Tail(rawFields))

AutomaticStatements(raw) ==
  (IF \E f \in Range(raw.fields) : f.type = "Json" /\ ~f.isRequired
   THEN <<"import { NullableJsonValue } from \"../helpers">> ELSE <<>>)
  \o (IF \E f \in Range(raw.fields) : f.type = "Json" /\ f.isRequired
      THEN <<"import { InputJsonValue } from \"../helpers">> ELSE <<>>)
  \o (IF \E f \in Range(raw.fields) : f.type = "Decimal"
      THEN <<"import * as PrismaClient from '@prisma/client'">> ELSE <<>>)
  \o EnumStatements(raw.fields)

DirectiveStatements(raw) ==
  _extractZodDirectives(raw.documentation, <<>>).statements

\* imports is list with every later duplicate removed
IsDedupOf(imports, list) ==
  /\ NoDuplicates(imports)
  /\ Range(imports) = Range(list)
  /\ \A i, j \in 1..Len(imports) :
       i < j => Pos(list, imports[i]) < Pos(list, imports[j])

\* C2: the import set of a model is (directive statements, then automatic
\* statements in the order nullable-JSON, input-JSON, database client, one
\* enum import per enum field) with later exact duplicates removed: nothing
\* occurs twice, first-seen order is kept, and a directive statement
\* precedes every automatic statement that is not a directive statement.
C2_ImportSet ==
  \A n \in Built :
    LET m == datamodel[1][n]
        directive == DirectiveStatements(dmmf[1][n])
        automatic == AutomaticStatements(dmmf[1][n])
    IN /\ IsDedupOf(m.imports, directive \o automatic)
       /\ \A i, j \in 1..Len(m.imports) :
            (/\ m.imports[i] \in Range(directive)
             /\ m.imports[j] \notin Range(directive)) => i < j

\* a model whose directive and automatic statements overlap, and whose
\* automatic statements precede nothing they should not
C2_Witness ==
  \E n \in Built :
    LET directive == DirectiveStatements(dmmf[1][n])
        automatic == AutomaticStatements(dmmf[1][n])
    IN /\ Range(directive) \cap Range(automatic) # {}
       /\ Range(directive) \ Range(automatic) # {}
       /\ Range(automatic) \ Range(directive) # {}
       /\ ~NoDuplicates(automatic)
       /\ Len(datamodel[1][n].imports) >= 3

ReExtracted(m) == _extractZodDirectives(m.clearedDocumentation, m.errorLocation)

AroundMarker(doc) ==
  replace(doc, MatchAt(doc, Min(MarkerStarts(doc)))[1].whole, <<>>)

SingleMarker(documentation) ==
  /\ documentation # None
  /\ Cardinality(MarkerStarts(documentation[1])) = 1
  /\ MarkerStarts(AroundMarker(documentation[1])) = {}

BadTagAt(doc, i) == Flat(MatchAt(doc, i)[1].type) # "import"

HasBadMarker(raw) ==
  /\ raw.documentation # None
  /\ \E i \in MarkerStarts(raw.documentation[1]) : BadTagAt(raw.documentation[1], i)

LeftmostMarkerBad(raw) ==
  /\ raw.documentation # None
  /\ MarkerStarts(raw.documentation[1]) # {}
  /\ BadTagAt(raw.documentation[1], Min(MarkerStarts(raw.documentation[1])))

NoMarker(raw) ==
  raw.documentation = None \/ MarkerStarts(raw.documentation[1]) = {}

Raws == IF dmmf = None THEN {} ELSE 1..Len(dmmf[1])

\* C4 as stated: a model whose documentation contains a marker with a tag
\* other than 'import' fails construction with an error naming the model
\* and leaves no graph; absent documentation and documentation without a
\* marker never fail and give no directive.
C4_DirectiveError ==
  /\ \A n \in Raws :
       HasBadMarker(dmmf[1][n])
         => /\ datamodel = None
            /\ error # None
            /\ \E k \in Raws : HasBadMarker(dmmf[1][k]) /\ includes(error[1], dmmf[1][k].name)
  /\ (dmmf # None /\ \A n \in Raws : NoMarker(dmmf[1][n]))
       => /\ error = None
          /\ datamodel # None
          /\ \A n \in Built : datamodel[1][n].clearedDocumentation = None

\* C4 amended: construction fails, with an error naming the model and no
\* graph, exactly when the leftmost marker of some model's documentation
\* has a tag other than 'import' (the error names the first such model);
\* otherwise every model is constructed, and a model without documentation
\* or without a marker has no directive.
C4_LeftmostDirectiveError ==
  dmmf # None =>
    LET bad == {n \in Raws : LeftmostMarkerBad(dmmf[1][n])}
    IN IF bad # {}
       THEN /\ datamodel = None
            /\ error # None
            /\ includes(error[1], dmmf[1][Min(bad)].name \o <<"'.">>)
       ELSE /\ error = None
            /\ datamodel # None
            /\ Len(datamodel[1]) = Len(dmmf[1])
            /\ \A n \in Built :
                 NoMarker(dmmf[1][n]) => datamodel[1][n].clearedDocumentation = None

\* construction of UserProfile failed on a documentation with text, a marker
\* tagged other than 'import' and more markers after it
C4_Witness ==
  /\ error # None
  /\ datamodel = None
  /\ \E n \in Raws :
       /\ dmmf[1][n].name = UserProfile
       /\ LeftmostMarkerBad(dmmf[1][n])
       /\ Cardinality(MarkerStarts(dmmf[1][n].documentation[1])) >= 2

Action == schemaField[1]

NoVerb(name) ==
  \A i \in 1..Len(PRISMA_ACTION_ARRAY) : ~includes(name, PRISMA_ACTION_ARRAY[i])

C6_ArgName ==
  (schemaField # None /\ Action.prismaAction # None) =>
    LET label == PRISMA_ACTION_ARG_MAP(Action.prismaAction)
    IN /\ Action.modelType =
            replace(replace(Action.name, Action.prismaAction[1], <<>>),
                    <<"OrThrow">>, <<>>)
       /\ label # None =>
            Action.argName =
              Some(Action.modelType \o label[1]
                   \o (IF includes(Action.name, <<"OrThrow">>)
                       THEN <<"OrThrow", "Args">> ELSE <<"Args">>))
       /\ label = None => Action.argName = None

\* C7: with both User and UserProfile in the root graph, in either order,
\* an action (with a recognised verb) whose modelType is one of the two is
\* linked to that model, and takes hasOmitFields and its args' linked fields
\* from it.
C7_OwnModel ==
  (/\ schemaField # None
   /\ Action.prismaAction # None
   /\ \E n \in Built : datamodel[1][n].name = User
   /\ \E n \in Built : datamodel[1][n].name = UserProfile) =>
    \A n \in Built :
      Action.modelType = datamodel[1][n].name =>
        /\ Action.linkedModel = Some(datamodel[1][n])
        /\ Action.hasOmitFields =
             (IsWriteName(Action.name) /\ datamodel[1][n].hasOmitFields)
        /\ \A i \in 1..Len(Action.args) :
             Action.args[i].linkedField =
               FindField(datamodel[1][n].fields, Action.args[i].name)

\* C8: for every accepted input type T of every arg of an action (with a
\* recognised verb), the import set holds the import of T's schema exactly
\* when T is neither Int nor Boolean, and no statement occurs twice.
C8_ArgTypeImports ==
  (schemaField # None /\ Action.prismaAction # None) =>
    /\ NoDuplicates(Action.argTypeImports)
    /\ \A i \in 1..Len(Action.args) :
         \A j \in 1..Len(Action.args[i].inputTypes) :
           LET T == Action.args[i].inputTypes[j].type
           IN (SchemaImport(GeneratorConfig, T) \in Range(Action.argTypeImports))
                <=> (T \notin {<<"Int">>, <<"Boolean">>})

\* C9: an action (with a recognised verb, of a model of the root graph)
\* whose name contains none of createMany/updateMany/deleteMany and whose
\* linked model has relation fields imports the include schema named after
\* the linked model; any other such action imports no include schema.
C9_IncludeImport ==
  (/\ schemaField # None
   /\ Action.prismaAction # None
   /\ \E n \in Built : datamodel[1][n].name = Action.modelType) =>
    IF /\ \A v \in {"create", "update", "delete"} : ~includes(Action.name, <<v, "Many">>)
       /\ Action.linkedModel # None
       /\ Action.linkedModel[1].hasRelationFields
    THEN IncludeImport(GeneratorConfig, Action.linkedModel[1].name)
           \in Range(Action.argTypeImports)
    ELSE \A imp \in Range(Action.argTypeImports) :
           ~includes(imp, <<"Include", "Schema">>)

\* the args the custom type rewrites, and the text generated for them
Rewritten == SelectSeq(Action.args, rewriteArgWithNewType)

IsArgName(token) == token \in {a.name : a \in ArgPool}

\* C10: the field list of the custom args type has one 'name: Type' entry
\* per arg whose should-rewrite predicate is true, in arg order, the types
\* of a multi-type arg joined by '|', and one array marker per list-valued
\* input type, for single-type and multi-type args alike.
C10_CustomArgsType ==
  (schemaField # None /\ Action.prismaAction # None) =>
    LET text == getTypeForCustomArgsType(Action.args)
    IN /\ SelectSeq(text, IsArgName) = [i \in 1..Len(Rewritten) |-> Rewritten[i].name]
       /\ Count(text, ": ") = Len(Rewritten)
       /\ Count(text, " | ") =
            Cardinality({<<i, j>> \in (1..Len(Rewritten)) \X (1..MaxArgs + 2) :
                           j < Len(Rewritten[i].inputTypes)})
       /\ Count(text, "[]") =
            Cardinality({<<i, j>> \in (1..Len(Rewritten)) \X (1..MaxArgs + 2) :
                           /\ j <= Len(Rewritten[i].inputTypes)
                           /\ Rewritten[i].inputTypes[j].isList})

=============================================================================
